---- MODULE Spec2Model ----
(***************************************************************************)
(* coyote (src/src/main.rs): a build orchestrator.  main() loads the lock  *)
(* file, preprocesses the recipe, walks the executables and their commands *)
(* in order (Executable::build), gating a command on its run_if condition  *)
(* (condition_met, which reads file metadata and refreshes the lock), and  *)
(* finally overwrites coyote.LOCK.                                         *)
(*                                                                         *)
(* A Rust String is modelled as a sequence of one-character strings where  *)
(* the program scans or converts it (lock values, template strings) and as *)
(* an atom where the program only compares it (condition verbs, paths,     *)
(* program names).  Option<T> is a sequence of length 0 (None) or 1.       *)
(*                                                                         *)
(* Spec      runs main() over recipes of several executables;              *)
(* SpecEval  runs main() over one executable of gated commands, with lock  *)
(*           files and conditions of every shape condition_met tells apart;*)
(* SpecPatch runs patch_string, character by character, over every short   *)
(*           string of braces, backticks, blanks and a letter.             *)
(* SpecRefs  runs patch_variable_references over the same strings;         *)
(* SpecPre   runs main() with preprocess() over recipes that declare       *)
(*           variables and whose strings are sequences of characters.      *)
(***************************************************************************)
EXTENDS Integers, Sequences, FiniteSets, TLC

\* ------------------------------------------------------------------ bounds
MaxTargets  == 2   \* executables in a recipe
MaxCommands == 3   \* commands in a recipe, over all its executables
MaxEvals    == 2   \* commands of the one executable of the evaluator runs
MaxTime     == 1   \* modification times are 0..MaxTime seconds
MaxTouches  == 1   \* changes of a file's modification time during a run

VARIABLES
    executables,   \* build_info.executables (raw only in SpecPre, until
                   \* preprocess() has replaced their strings)
    lockfile,      \* the CoyoteLock in memory: [last_modified, rebuild]
    rebuild_arg,   \* arguments.rebuild (Cli)
    disk,          \* contents of ./coyote.LOCK
    fs,            \* modification time of every path, NoFile when unreadable
    touches,       \* number of modification-time changes so far
    pc,            \* position of main()
    exec_index,    \* main's position in executables (1-based)
    command_pos,   \* build's position in self.commands (1-based)
    events,        \* what the run did so far, oldest first
    stderr,        \* lines written by format_error
    loaded,        \* last_modified as read from the lock file
    scan,          \* the locals of a call of patch_string
    pre            \* preprocess(): the variables declared, the table so far

runVars == <<executables, lockfile, rebuild_arg, disk, fs, touches, pc,
             exec_index, command_pos, events, stderr, loaded, pre>>
vars == <<runVars, scan>>

\* ------------------------------------------------------------ Option, maps
None == <<>>
Some(x) == <<x>>
IsSome(o) == Len(o) = 1
Unwrap(o) == o[1]

\* HashMap::insert / *get_mut(k) = v
Insert(m, k, v) == [x \in (DOMAIN m) \cup {k} |-> IF x = k THEN v ELSE m[x]]
EmptyMap == [x \in {} |-> <<>>]

\* ------------------------------------------------- u64 <-> decimal String
Digits == <<"0", "1", "2", "3", "4", "5", "6", "7", "8", "9">>
IsDigit(c) == \E d \in 1..10 : Digits[d] = c
DigitVal(c) == (CHOOSE d \in 1..10 : Digits[d] = c) - 1

RECURSIVE to_string(_)
\* u64::to_string: decimal, no sign, no leading zeros
to_string(n) ==
    IF n < 10 THEN <<Digits[n + 1]>>
    ELSE to_string(n \div 10) \o <<Digits[(n % 10) + 1]>>

RECURSIVE DigitsValue(_)
DigitsValue(s) ==
    IF s = <<>> THEN 0
    ELSE 10 * DigitsValue(SubSeq(s, 1, Len(s) - 1)) + DigitVal(s[Len(s)])

ParseErr == -1
\* str::parse::<u64>: an optional leading "+", then one or more decimal
\* digits; anything else is Err.  (Overflow past u64::MAX is also Err; the
\* strings of this model are too short to overflow.)
parse_u64(s) ==
    LET body == IF s # <<>> /\ s[1] = "+" THEN Tail(s) ELSE s
    IN  IF body # <<>> /\ \A i \in 1..Len(body) : IsDigit(body[i])
        THEN DigitsValue(body)
        ELSE ParseErr

\* ------------------------------------------------------------ format_error
\* format_error(message, fatal, subname): writes one line to stderr and then
\* calls process::exit(-1) (line 74), whatever `fatal` is: `fatal` only adds
\* the "(fatal)" suffix to the line.
\* (a variant that prints and returns, as the name of the function suggests)
format_error_returns(message, fatal, subname) ==
    [line  |-> [message |-> message, fatal |-> fatal, subname |-> subname],
     exits |-> FALSE]

format_error(message, fatal, subname) ==
    [line  |-> [message |-> message, fatal |-> fatal, subname |-> subname],
     exits |-> TRUE]

\* ------------------------------------------------- get_file_modified_time
NoFile == -1
Times == 0..MaxTime
\* fs::metadata(path): Ok exactly when the path has a modification time
MetadataOk(files, path) == path \in DOMAIN files /\ files[path] # NoFile

\* --------------------------------------------------------- condition_met
\* The outcomes of a call: it returns (kind "ret", with the bool in met),
\* the process exits (kind "exit"), or it panics on an out-of-bounds index
\* (kind "panic").  last_modified is lock.last_modified as the call leaves
\* it; err is what it wrote to stderr.
Ret(met, lm) ==
    [kind |-> "ret", met |-> met, last_modified |-> lm, err |-> <<>>]
Exit(lm) ==
    [kind |-> "exit", met |-> FALSE, last_modified |-> lm, err |-> <<>>]
Panics(lm) ==
    [kind |-> "panic", met |-> FALSE, last_modified |-> lm, err |-> <<>>]
\* a call of format_error followed by `rest`, which runs only when
\* format_error returns
AfterError(fe, lm, rest) ==
    IF fe.exits THEN [Exit(lm) EXCEPT !.err = <<fe.line>>]
    ELSE [rest EXCEPT !.err = <<fe.line>> \o @]

\* (a variant whose first observation is not recorded)
compare_and_refresh_no_insert(path, file_modified_time, lm) ==
    IF path \notin DOMAIN lm
    THEN Ret(TRUE, lm)
    ELSE LET last_modified == parse_u64(lm[path]) IN
    IF last_modified = ParseErr
    THEN AfterError(format_error("Failed to parse condition to u64",
                                 TRUE, "run_if"), lm, Exit(lm))
    ELSE Ret(last_modified # file_modified_time,
             Insert(lm, path, to_string(file_modified_time)))

\* (a variant that is met only by a newer file)
compare_and_refresh_newer_only(path, file_modified_time, lm) ==
    IF path \notin DOMAIN lm
    THEN Ret(TRUE, Insert(lm, path, to_string(file_modified_time)))
    ELSE LET last_modified == parse_u64(lm[path]) IN
    IF last_modified = ParseErr
    THEN AfterError(format_error("Failed to parse condition to u64",
                                 TRUE, "run_if"), lm, Exit(lm))
    ELSE Ret(last_modified < file_modified_time,
             Insert(lm, path, to_string(file_modified_time)))

\* (a variant with the comparison inverted)
compare_and_refresh_inverted(path, file_modified_time, lm) ==
    IF path \notin DOMAIN lm
    THEN Ret(TRUE, Insert(lm, path, to_string(file_modified_time)))
    ELSE LET last_modified == parse_u64(lm[path]) IN
    IF last_modified = ParseErr
    THEN AfterError(format_error("Failed to parse condition to u64",
                                 TRUE, "run_if"), lm, Exit(lm))
    ELSE Ret(last_modified = file_modified_time,
             Insert(lm, path, to_string(file_modified_time)))

\* (a variant that compares with an entry but leaves it as it is)
compare_and_refresh_no_refresh(path, file_modified_time, lm) ==
    IF path \notin DOMAIN lm
    THEN Ret(TRUE, Insert(lm, path, to_string(file_modified_time)))
    ELSE LET last_modified == parse_u64(lm[path]) IN
    IF last_modified = ParseErr
    THEN AfterError(format_error("Failed to parse condition to u64",
                                 TRUE, "run_if"), lm, Exit(lm))
    ELSE Ret(last_modified # file_modified_time, lm)

\* lines 275-302: the lookup in the lock, the refresh and the comparison
compare_and_refresh(path, file_modified_time, lm) ==
    IF path \notin DOMAIN lm
    THEN Ret(TRUE, Insert(lm, path, to_string(file_modified_time)))
    ELSE LET last_modified == parse_u64(lm[path]) IN
    IF last_modified = ParseErr
    THEN AfterError(format_error("Failed to parse condition to u64",
                                 TRUE, "run_if"), lm, Exit(lm))
    ELSE Ret(last_modified # file_modified_time,
             Insert(lm, path, to_string(file_modified_time)))

\* the arm "modified" of the match, after the argument-count test
modified_arm(cond, lm, files) ==
    IF Len(cond) < 2 THEN Panics(lm)            \* cond[1] is out of bounds
    ELSE LET path == cond[2] IN
    IF MetadataOk(files, path)
    THEN compare_and_refresh(path, files[path], lm)
    ELSE AfterError(format_error("Cannot read or open metadata of file",
                                 FALSE, ""),
                    lm, compare_and_refresh(path, 0, lm))

\* the argument-count test of "modified" (line 269)
TooManyArgs(cond) == Len(cond) > 2

condition_met(cond, target, lm, files) ==
    IF Len(cond) = 0
    THEN AfterError(format_error("No condition specifier for 'run_if'",
                                 TRUE, "run_if"), lm, Panics(lm))
    ELSE IF cond[1] = "modified"
    THEN IF TooManyArgs(cond)
         THEN AfterError(format_error(
                "Condition 'modified' must have 1 argument: <path>",
                TRUE, "run_if"), lm, modified_arm(cond, lm, files))
         ELSE modified_arm(cond, lm, files)
    ELSE AfterError(format_error("Unknown condition type", TRUE, "run_if"),
                    lm, Ret(FALSE, lm))

\* (a variant that has lost the `continue`: the result is not looked at)
run_if_gate_ignores_result(command, target, lock, files) ==
    IF IsSome(command.run_if) /\ ~lock.rebuild
    THEN LET r == condition_met(Unwrap(command.run_if), target,
                                lock.last_modified, files)
         IN  [evaluated |-> TRUE, r |-> r, run |-> r.kind = "ret"]
    ELSE [evaluated |-> FALSE, r |-> Ret(TRUE, lock.last_modified),
          run |-> TRUE]

\* (a variant that tests lock.rebuild after the evaluation, not before)
run_if_gate_evaluates_first(command, target, lock, files) ==
    IF IsSome(command.run_if)
    THEN LET r == condition_met(Unwrap(command.run_if), target,
                                lock.last_modified, files)
         IN  [evaluated |-> TRUE, r |-> r,
              run |-> r.kind = "ret" /\ (lock.rebuild \/ r.met)]
    ELSE [evaluated |-> FALSE, r |-> Ret(TRUE, lock.last_modified),
          run |-> TRUE]

\* lines 401-409 of Executable::build: the run_if of a command is evaluated
\* only when there is one and lock.rebuild is unset; otherwise the command
\* runs and the lock is left alone.  r is what condition_met answered when
\* it was called (evaluated), run whether the command goes on to cmd.output()
run_if_gate(command, target, lock, files) ==
    IF IsSome(command.run_if) /\ ~lock.rebuild
    THEN LET r == condition_met(Unwrap(command.run_if), target,
                                lock.last_modified, files)
         IN  [evaluated |-> TRUE, r |-> r, run |-> r.kind = "ret" /\ r.met]
    ELSE [evaluated |-> FALSE, r |-> Ret(TRUE, lock.last_modified),
          run |-> TRUE]

\* ------------------------------------------- patch_string (lines 174-224)
\* the character U+0060, which the parser does not accept inside a string
Backtick == "BACKTICK"
\* str::replace(ch, ""), str::trim over the blank of this model's alphabet
Replace(s, ch) == SelectSeq(s, LAMBDA c : c # ch)
RECURSIVE TrimStart(_)
TrimStart(s) == IF s # <<>> /\ s[1] = " " THEN TrimStart(Tail(s)) ELSE s
RECURSIVE TrimEnd(_)
TrimEnd(s) ==
    IF s # <<>> /\ s[Len(s)] = " " THEN TrimEnd(SubSeq(s, 1, Len(s) - 1))
    ELSE s
Trim(s) == TrimEnd(TrimStart(s))

RECURSIVE Words(_, _)
\* the blank-separated words of s; cur is the word being read
Words(s, cur) ==
    IF s = <<>> THEN (IF cur = <<>> THEN <<>> ELSE <<cur>>)
    ELSE IF s[1] = " "
         THEN (IF cur = <<>> THEN <<>> ELSE <<cur>>) \o Words(Tail(s), <<>>)
         ELSE Words(Tail(s), Append(cur, s[1]))
\* shlex::split on text without quotes, backslashes or '#': always Some
shlex_split(s) == Some(Words(s, <<>>))

\* what the operating system answers to Command::output(): the process did
\* not start, or it ran and left a status and its standard output
Stdouts == {<<"o">>, <<"o", " ">>}
Outcomes ==
    {[started |-> FALSE, success |-> FALSE, stdout |-> <<>>],
     [started |-> TRUE, success |-> FALSE, stdout |-> <<>>]}
    \cup {[started |-> TRUE, success |-> TRUE, stdout |-> o] : o \in Stdouts}

\* execute_command_opt (lines 77-137): kind "ret" with the output in out,
\* "exit" or "panic"; ran holds the argv handed to Command::output()
execute_command_opt(command, command_string, outcome) ==
    LET parse_fe == format_error("Failed to parse command", TRUE,
                                 "preprocessor")
        exec_fe == format_error("Failed to execute command", TRUE,
                                "preprocessor")
    IN  IF ~IsSome(command)
        THEN [kind |-> "exit", out |-> <<>>, err |-> <<parse_fe.line>>,
              ran |-> <<>>]
        ELSE LET cmd == Unwrap(command) IN
        IF cmd = <<>>                                \* cmd[0] out of bounds
        THEN [kind |-> "panic", out |-> <<>>, err |-> <<>>, ran |-> <<>>]
        ELSE IF outcome.started /\ outcome.success
        THEN [kind |-> "ret", out |-> outcome.stdout, err |-> <<>>,
              ran |-> <<cmd>>]
        ELSE IF outcome.started
        THEN [kind |-> "exit", out |-> <<>>, err |-> <<exec_fe.line>>,
              ran |-> <<cmd>>]
        ELSE [kind |-> IF exec_fe.exits THEN "exit" ELSE "ret",
              out |-> <<>>, err |-> <<exec_fe.line>>, ran |-> <<cmd>>]

\* the locals of patch_string before the first character; status is
\* "scanning" until the call returns Ok ("ok", the string in var_data) or
\* Err ("err", the reference in err), or the process ends ("exit", "panic")
ScanStart(value, variables) ==
    [value |-> value, variables |-> variables, pos |-> 1,
     tokens |-> <<>>, var_data |-> <<>>,
     var_found |-> FALSE, cmd_found |-> FALSE,
     status |-> "scanning", err |-> <<>>, executed |-> <<>>, diag |-> <<>>]
NoScan == [ScanStart(<<>>, EmptyMap) EXCEPT !.status = "idle"]

\* lines 202-211: the character c read while cmd_found
command_char(st, c, outcome) ==
    IF c = Backtick
    THEN LET replace_cmd == Replace(st.tokens, Backtick)
             trimmed_cmd == Trim(replace_cmd)
             cmd == shlex_split(trimmed_cmd)
             r == execute_command_opt(cmd, replace_cmd, outcome)
         IN  [st EXCEPT !.var_data = @ \o r.out,
                        !.executed = @ \o r.ran,
                        !.diag = @ \o r.err,
                        !.status = IF r.kind = "ret" THEN @ ELSE r.kind]
    ELSE [st EXCEPT !.tokens = Append(@, c)]

\* (a variant whose escape emits nothing)
variable_char_silent_escape(st, c) ==
    IF c = "}"
    THEN LET var_ref == Replace(st.tokens, "{") IN
         IF var_ref \in DOMAIN st.variables
         THEN [st EXCEPT !.var_data = @ \o st.variables[var_ref],
                         !.var_found = FALSE]
         ELSE [st EXCEPT !.status = "err", !.err = var_ref]
    ELSE IF c = "{"
    THEN [st EXCEPT !.var_found = FALSE]
    ELSE [st EXCEPT !.tokens = Append(@, c)]

\* lines 184-200: the character c read while var_found
variable_char(st, c) ==
    IF c = "}"
    THEN LET var_ref == Replace(st.tokens, "{") IN
         IF var_ref \in DOMAIN st.variables
         THEN [st EXCEPT !.var_data = @ \o st.variables[var_ref],
                         !.var_found = FALSE]
         ELSE [st EXCEPT !.status = "err", !.err = var_ref]
    ELSE IF c = "{"
    THEN [st EXCEPT !.var_found = FALSE, !.var_data = Append(@, "{")]
    ELSE [st EXCEPT !.tokens = Append(@, c)]

\* lines 183-221: the body of the loop for the character c
patch_string_char(st, c, outcome) ==
    IF st.var_found THEN variable_char(st, c)
    ELSE IF st.cmd_found THEN command_char(st, c, outcome)
    ELSE IF c = "{" THEN [st EXCEPT !.var_found = TRUE, !.tokens = <<"{">>]
    ELSE IF c = Backtick THEN [st EXCEPT !.cmd_found = TRUE, !.tokens = <<Backtick>>]
    ELSE [st EXCEPT !.var_data = Append(@, c)]

\* ------------------------------ patch_variable_references (lines 139-172)
\* (a variant whose lookup falls back to the empty string)
reference_char_missing_is_empty(st, c) ==
    IF c = "}"
    THEN LET var_ref == Replace(st.tokens, "{") IN
         IF var_ref \in DOMAIN st.variables
         THEN [st EXCEPT !.var_data = @ \o st.variables[var_ref],
                         !.var_found = FALSE]
         ELSE [st EXCEPT !.var_found = FALSE]
    ELSE IF c = "{"
    THEN [st EXCEPT !.var_found = FALSE, !.var_data = Append(@, "{")]
    ELSE [st EXCEPT !.tokens = Append(@, c)]

\* (a variant without the escape: a second "{" restarts the capture)
reference_char_no_escape(st, c) ==
    IF c = "}"
    THEN LET var_ref == Replace(st.tokens, "{") IN
         IF var_ref \in DOMAIN st.variables
         THEN [st EXCEPT !.var_data = @ \o st.variables[var_ref],
                         !.var_found = FALSE]
         ELSE [st EXCEPT !.status = "err", !.err = var_ref]
    ELSE IF c = "{"
    THEN [st EXCEPT !.tokens = <<"{">>]
    ELSE [st EXCEPT !.tokens = Append(@, c)]

\* lines 146-162: the character c read while var_found
reference_char(st, c) ==
    IF c = "}"
    THEN LET var_ref == Replace(st.tokens, "{") IN
         IF var_ref \in DOMAIN st.variables
         THEN [st EXCEPT !.var_data = @ \o st.variables[var_ref],
                         !.var_found = FALSE]
         ELSE [st EXCEPT !.status = "err", !.err = var_ref]
    ELSE IF c = "{"
    THEN [st EXCEPT !.var_found = FALSE, !.var_data = Append(@, "{")]
    ELSE [st EXCEPT !.tokens = Append(@, c)]

\* (a variant that treats backticks as patch_string does, the command
\* always starting and printing "o")
patch_variable_references_char_runs(st, c) ==
    patch_string_char(st, c,
        [started |-> TRUE, success |-> TRUE, stdout |-> <<"o">>])

\* (a variant that copies only what is neither brace)
patch_variable_references_char_drops_brace(st, c) ==
    IF st.var_found THEN reference_char(st, c)
    ELSE IF c = "{" THEN [st EXCEPT !.var_found = TRUE, !.tokens = <<"{">>]
    ELSE IF c = "}" THEN st
    ELSE [st EXCEPT !.var_data = Append(@, c)]

\* lines 145-169: the body of the loop for the character c
patch_variable_references_char(st, c) ==
    IF st.var_found THEN reference_char(st, c)
    ELSE IF c = "{" THEN [st EXCEPT !.var_found = TRUE, !.tokens = <<"{">>]
    ELSE [st EXCEPT !.var_data = Append(@, c)]

\* (a variant that rejects a reference left open at the end of the string)
patch_variable_references_end_strict(st) ==
    IF st.var_found
    THEN [st EXCEPT !.status = "err", !.err = Replace(st.tokens, "{")]
    ELSE [st EXCEPT !.status = "ok"]

\* line 171: Ok(var_data) once the characters are used up, whatever the
\* state of var_found and tokens
patch_variable_references_end(st) == [st EXCEPT !.status = "ok"]

\* the call from the locals st on: the loop, then line 171
RECURSIVE patch_variable_references_from(_)
patch_variable_references_from(st) ==
    IF st.status # "scanning" THEN st
    ELSE IF st.pos > Len(st.value) THEN patch_variable_references_end(st)
    ELSE patch_variable_references_from(
             [patch_variable_references_char(st, st.value[st.pos])
                 EXCEPT !.pos = @ + 1])

patch_variable_references(value, variables) ==
    patch_variable_references_from(ScanStart(value, variables))

\* ------------------------------------------------ preprocess (226-385)
\* patch_string from the locals st on, every command it executes meeting
\* the same outcome: the loop, then line 223
RECURSIVE patch_string_from(_, _)
patch_string_from(st, outcome) ==
    IF st.status # "scanning" THEN st
    ELSE IF st.pos > Len(st.value) THEN [st EXCEPT !.status = "ok"]
    ELSE patch_string_from(
             [patch_string_char(st, st.value[st.pos], outcome)
                 EXCEPT !.pos = @ + 1], outcome)

patch_string(value, variables, outcome) ==
    patch_string_from(ScanStart(value, variables), outcome)

\* (a variant that reports the reference and returns the empty string)
check_var_string_returns(string, key) ==
    IF string.status = "ok"
    THEN [kind |-> "ret", value |-> string.var_data, err |-> <<>>]
    ELSE [kind |-> "ret", value |-> <<>>,
          err |-> <<format_error([key |-> key, reference |-> string.err],
                                 TRUE, "preprocessor").line>>]

\* check_var_string (lines 226-238): the value of Ok; for Err the
\* diagnostic, then process::exit(-1) (line 235)
check_var_string(string, key) ==
    IF string.status = "ok"
    THEN [kind |-> "ret", value |-> string.var_data, err |-> <<>>]
    ELSE [kind |-> "exit", value |-> <<>>,
          err |-> <<format_error([key |-> key, reference |-> string.err],
                                 TRUE, "preprocessor").line>>]

\* self.variables.as_object(): the declarations, a sequence of <<key, raw
\* value>>, in the order the loop of line 333 meets them
as_object(declared) == declared

\* (a variant that enters the key in the table before its value is patched)
resolve_variable_sees_itself(key, value, variables, outcome) ==
    LET patched == patch_string(value, Insert(variables, key, <<>>), outcome)
        checked == check_var_string(patched, key)
    IN  [patched |-> patched, checked |-> checked,
         variables |-> IF patched.status \in {"ok", "err"}
                          /\ checked.kind = "ret"
                       THEN Insert(variables, key, checked.value)
                       ELSE variables]

\* lines 334-338: one iteration of the loop over the variables; patched is
\* what patch_string did, checked what check_var_string made of it (when
\* patch_string returned), variables the table afterwards
resolve_variable(key, value, variables, outcome) ==
    LET patched == patch_string(value, variables, outcome)
        checked == check_var_string(patched, key)
    IN  [patched |-> patched, checked |-> checked,
         variables |-> IF patched.status \in {"ok", "err"}
                          /\ checked.kind = "ret"
                       THEN Insert(variables, key, checked.value)
                       ELSE variables]

\* lines 345-382: the strings of a command in the order they are patched
Fields(command) ==
    <<command.command>> \o command.arguments
        \o (IF IsSome(command.run_if) THEN Unwrap(command.run_if) ELSE <<>>)
RECURSIVE FieldsOfCommands(_)
FieldsOfCommands(commands) ==
    IF commands = <<>> THEN <<>>
    ELSE Fields(commands[1]) \o FieldsOfCommands(Tail(commands))
RECURSIVE AllFields(_)
AllFields(execs) ==
    IF execs = <<>> THEN <<>>
    ELSE FieldsOfCommands(execs[1].commands) \o AllFields(Tail(execs))

\* check_var_string(patch_variable_references(&field, &variables), field)
patch_field(field, variables) ==
    LET patched == patch_variable_references(field, variables)
    IN  [patched |-> patched, checked |-> check_var_string(patched, field)]

\* lines 344-382: a command with its strings replaced
preprocess_command(command, variables) ==
    LET P(f) == patch_field(f, variables).checked.value
    IN  [command |-> P(command.command),
         arguments |-> [i \in DOMAIN command.arguments |->
                           P(command.arguments[i])],
         run_if |-> IF IsSome(command.run_if)
                    THEN Some([i \in DOMAIN Unwrap(command.run_if) |->
                                  P(Unwrap(command.run_if)[i])])
                    ELSE None]

\* lines 343-384: every executable with its commands replaced
preprocess_executables(execs, variables) ==
    [t \in DOMAIN execs |->
        [execs[t] EXCEPT !.commands =
            [c \in DOMAIN execs[t].commands |->
                preprocess_command(execs[t].commands[c], variables)]]]

\* pre when there is nothing to preprocess
NoPre == [pending |-> FALSE, json |-> <<>>, next |-> 1,
          variables |-> EmptyMap, recipe |-> <<>>]

\* ------------------------------------------------------------ the inputs
Paths == {"p", "q"}
Program == "cc"
Target == "app"

\* struct Command, struct Executable
Cmd(run_if) == [command |-> Program, arguments |-> <<>>, run_if |-> run_if]
Executable(commands) == [target |-> Target, commands |-> commands]

RECURSIVE TotalCommands(_)
TotalCommands(execs) ==
    IF execs = <<>> THEN 0
    ELSE Len(execs[1].commands) + TotalCommands(Tail(execs))

SeqsUpTo(S, n) == UNION {[1..k -> S] : k \in 0..n}

\* recipes of the executor runs: up to MaxTargets executables holding up to
\* MaxCommands commands in all, each ungated or gated on the file "p"
RunCommands == {Cmd(None), Cmd(Some(<<"modified", "p">>))}
Recipes ==
    {r \in SeqsUpTo({Executable(c) : c \in SeqsUpTo(RunCommands, MaxCommands)},
                    MaxTargets) : TotalCommands(r) <= MaxCommands}

\* recipes of the evaluator runs: one executable, every command gated, the
\* conditions well formed or not
EvalConds == {<<>>, <<"modified">>, <<"modified", "p">>, <<"modified", "q">>,
              <<"modified", "p", "q">>, <<"changed", "p">>}
EvalRecipes ==
    {<<Executable(c)>> : c \in SeqsUpTo({Cmd(Some(k)) : k \in EvalConds},
                                         MaxEvals)}

\* ./coyote.LOCK: absent, or its text: "" (empty), text serde_json rejects
\* (malformed), or the JSON of a CoyoteLock (rebuild is skipped by serde)
Absent == [kind |-> "absent", last_modified |-> EmptyMap]
Empty == [kind |-> "empty", last_modified |-> EmptyMap]
Malformed == [kind |-> "malformed", last_modified |-> EmptyMap]
Json(lm) == [kind |-> "json", last_modified |-> lm]

\* serde_json::to_string(&lockfile) and serde_json::from_str(&lock_contents)
Serialize(lock) == Json(lock.last_modified)
CoyoteLockNew == [last_modified |-> EmptyMap, rebuild |-> FALSE]
Deserialize(file) == [last_modified |-> file.last_modified, rebuild |-> FALSE]

TimeStrings == {to_string(t) : t \in Times}
\* lock values as a lock file may hold them: decimal seconds, and strings
\* that are not what to_string writes
LockStrings == TimeStrings \cup {<<"0", "1">>, <<"+", "1">>, <<"x">>, <<>>}

MapsOver(keys, values) == UNION {[d -> values] : d \in SUBSET keys}

\* the strings patch_string is run on, and the tables it is given
MaxLen == 5
Chars == {"{", "}", Backtick, "a", " "}
Strings == SeqsUpTo(Chars, MaxLen)
Tables == {EmptyMap, [n \in {<<"a">>} |-> <<"b">>]}

\* the recipes preprocess() is run on.  Variables: the names a and b, each
\* declared at most once, with a literal, a reference to a or to b, a
\* command reference, or a reference left open
PreNames == {<<"a">>, <<"b">>}
PreValues == {<<"1">>, <<"{", "a", "}", "2">>, <<"{", "b", "}">>,
              <<Backtick, "o", Backtick>>, <<"{", "a">>}
Declarations ==
    {d \in SeqsUpTo(PreNames \X PreValues, Cardinality(PreNames)) :
        \A i, j \in DOMAIN d : i # j => d[i][1] # d[j][1]}
\* executables of one command: a plain one, one whose program is {a} and
\* whose argument holds backticks, one with the argument {b}, one gated on
\* the path {a}
PreCommands ==
    {[command |-> <<"c">>, arguments |-> <<>>, run_if |-> None],
     [command |-> <<"{", "a", "}">>,
      arguments |-> << <<Backtick, "o", Backtick>> >>, run_if |-> None],
     [command |-> <<"c">>, arguments |-> << <<"{", "b", "}">> >>,
      run_if |-> None],
     [command |-> <<"c">>, arguments |-> <<>>,
      run_if |-> Some(<< <<"m">>, <<"{", "a", "}">> >>)]}
PreRecipes ==
    SeqsUpTo({[target |-> Target, commands |-> <<c>>] : c \in PreCommands},
             MaxTargets)

TypeOK ==
    /\ pc \in {"preprocess", "load_lock", "main", "build", "spawn", "wait",
               "done", "exited", "panicked"}
    /\ lockfile.rebuild \in BOOLEAN
    /\ DOMAIN lockfile.last_modified \subseteq Paths
    /\ DOMAIN fs \subseteq Paths
    /\ \A x \in DOMAIN fs : fs[x] \in Times \cup {NoFile}
    /\ touches \in 0..MaxTouches
    /\ exec_index \in 1..(Len(executables) + 1)
    /\ pre.pending \in BOOLEAN
    /\ pre.next \in 1..(Len(pre.json) + 1)

InitCommon ==
    /\ lockfile = CoyoteLockNew
    /\ touches = 0
    /\ pc = "load_lock"
    /\ exec_index = 1
    /\ command_pos = 1
    /\ events = <<>>
    /\ stderr = <<>>
    /\ loaded = EmptyMap
    /\ scan = NoScan
    /\ pre = NoPre

\* a run of main() over a recipe, in a directory that holds at most "p"
Init ==
    /\ executables \in Recipes
    /\ rebuild_arg \in BOOLEAN
    /\ disk \in {Absent, Malformed}
                \cup {Json(m) : m \in MapsOver({"p"}, TimeStrings)}
    /\ fs \in [{"p"} -> Times \cup {NoFile}]
    /\ InitCommon

\* a run of main() over one executable of gated commands, without --rebuild
InitEval ==
    /\ executables \in EvalRecipes
    /\ rebuild_arg = FALSE
    /\ disk \in {Empty}
                \cup {Json(m) : m \in {m \in MapsOver(Paths, LockStrings) :
                         "q" \in DOMAIN m => m["q"] = to_string(0)}}
    /\ fs \in {f \in [Paths -> Times \cup {NoFile}] : f["q"] \in {NoFile, 0}}
    /\ InitCommon

\* ------------------------------------------------------------------ main
\* an entry of events: what happened, at which executable and command; for
\* an evaluation of a condition also the value its path had in the lock
\* (prev) and the file's modification time (now) when it was called
Ev(kind) ==
    [ev |-> kind, t |-> exec_index, c |-> command_pos,
     prev |-> None, now |-> None]
EvalEv(kind, cond) ==
    [Ev(kind) EXCEPT
        !.prev = IF Len(cond) >= 2 /\ cond[2] \in DOMAIN lockfile.last_modified
                 THEN Some(lockfile.last_modified[cond[2]]) ELSE None,
        !.now = IF Len(cond) >= 2 /\ MetadataOk(fs, cond[2])
                THEN Some(fs[cond[2]]) ELSE None]
Running == pc \in {"main", "build", "spawn", "wait"}
Terminated == pc \in {"done", "exited", "panicked"}

\* lines 525-553: read ./coyote.LOCK (creating it when it cannot be read),
\* parse it, set lockfile.rebuild.  preprocess() comes next (line 556); a
\* recipe without variables whose strings hold no "{" is left as it is by
\* preprocess(), and the walk starts (pre.pending is FALSE)
LoadLock ==
    /\ pc = "load_lock"
    /\ \E created \in IF disk.kind = "absent" THEN BOOLEAN ELSE {TRUE} :
        LET contents == IF disk.kind = "absent" /\ created THEN Empty
                        ELSE disk
            fe == format_error("Malformed 'coyote.LOCK' detected", TRUE, "")
            lock == IF contents.kind = "json" THEN Deserialize(contents)
                    ELSE CoyoteLockNew
        IN  IF contents.kind = "absent"
            THEN \* File::create failed: format_error, process::exit(-1)
                 /\ stderr' = Append(stderr,
                        format_error("Failed to create 'coyote.LOCK",
                                     TRUE, "").line)
                 /\ pc' = "exited"
                 /\ UNCHANGED <<disk, lockfile, loaded>>
            ELSE IF contents.kind = "malformed" /\ fe.exits
            THEN /\ stderr' = Append(stderr, fe.line)
                 /\ pc' = "exited"
                 /\ UNCHANGED <<disk, lockfile, loaded>>
            ELSE /\ stderr' = IF contents.kind = "malformed"
                              THEN Append(stderr, fe.line) ELSE stderr
                 /\ disk' = contents
                 /\ lockfile' = [lock EXCEPT !.rebuild = rebuild_arg]
                 /\ loaded' = lock.last_modified
                 /\ pc' = IF pre.pending THEN "preprocess" ELSE "main"
    /\ UNCHANGED <<executables, rebuild_arg, fs, touches, exec_index,
                   command_pos, events,
                   scan, pre>>

\* lines 563-571: the next executable, if any, is built
BuildTarget ==
    /\ pc = "main"
    /\ exec_index <= Len(executables)
    /\ command_pos' = 1
    /\ pc' = "build"
    /\ UNCHANGED <<executables, lockfile, rebuild_arg, disk, fs, touches,
                   exec_index, events, stderr, loaded,
                   scan, pre>>

\* lines 398-409 of Executable::build: the next command of the executable
\* is run (pc "spawn") or skipped (continue); the process ends when
\* condition_met does not return
CheckRunIf ==
    /\ pc = "build"
    /\ command_pos <= Len(executables[exec_index].commands)
    /\ LET self == executables[exec_index]
           command == self.commands[command_pos]
           g == run_if_gate(command, self.target, lockfile, fs)
           seen == IF g.evaluated
                   THEN <<Ev("consider"),
                          EvalEv(IF g.r.kind # "ret" THEN "eval_failed"
                                 ELSE IF g.r.met THEN "met" ELSE "not_met",
                                 Unwrap(command.run_if))>>
                   ELSE <<Ev("consider")>>
       IN  /\ lockfile' = [lockfile EXCEPT !.last_modified = g.r.last_modified]
           /\ stderr' = stderr \o g.r.err
           /\ events' = events \o seen
           /\ pc' = IF g.r.kind = "exit" THEN "exited"
                    ELSE IF g.r.kind = "panic" THEN "panicked"
                    ELSE IF g.run THEN "spawn"
                    ELSE "build"
           /\ command_pos' = IF g.r.kind = "ret" /\ ~g.run
                             THEN command_pos + 1          \* continue
                             ELSE command_pos
    /\ UNCHANGED <<executables, rebuild_arg, disk, fs, touches, exec_index,
                   loaded, scan, pre>>

\* (a variant that starts the process and goes on without waiting for it)
SpawnCommand_detached ==
    /\ pc = "spawn"
    /\ events' = Append(events, Ev("run"))
    /\ pc' = "build"
    /\ command_pos' = command_pos + 1
    /\ UNCHANGED <<executables, lockfile, rebuild_arg, disk, fs, touches,
                   exec_index, stderr, loaded, scan, pre>>

\* lines 411-433 and 461-467: the command is handed to cmd.output(); the
\* process starts, or cmd.output() is Err
SpawnCommand ==
    /\ pc = "spawn"
    /\ \E started \in BOOLEAN :
        LET fe == format_error("Failed to execute command", TRUE, "")
        IN  IF started
            THEN /\ pc' = "wait"
                 /\ events' = Append(events, Ev("run"))
                 /\ UNCHANGED <<stderr, command_pos>>
            ELSE /\ events' = events \o <<Ev("run"), Ev("spawn_failed")>>
                 /\ stderr' = Append(stderr, fe.line)
                 /\ IF fe.exits
                    THEN pc' = "exited" /\ UNCHANGED command_pos
                    ELSE pc' = "build" /\ command_pos' = command_pos + 1
    /\ UNCHANGED <<executables, lockfile, rebuild_arg, disk, fs, touches,
                   exec_index, loaded,
                   scan, pre>>

\* lines 433-469: cmd.output() returns the finished process's output; a
\* status other than success is handed to format_error
CommandExits ==
    /\ pc = "wait"
    /\ \E success \in BOOLEAN :
        LET fe == format_error("Failed to execute command", FALSE, "")
        IN  IF success
            THEN /\ events' = Append(events, Ev("succeeded"))
                 /\ pc' = "build"
                 /\ command_pos' = command_pos + 1
                 /\ UNCHANGED stderr
            ELSE /\ events' = Append(events, Ev("failed"))
                 /\ stderr' = Append(stderr, fe.line)
                 /\ IF fe.exits
                    THEN pc' = "exited" /\ UNCHANGED command_pos
                    ELSE pc' = "build" /\ command_pos' = command_pos + 1
    /\ UNCHANGED <<executables, lockfile, rebuild_arg, disk, fs, touches,
                   exec_index, loaded,
                   scan, pre>>

\* line 470-471, 573: build returns after the last command
BuildReturns ==
    /\ pc = "build"
    /\ command_pos > Len(executables[exec_index].commands)
    /\ exec_index' = exec_index + 1
    /\ pc' = "main"
    /\ UNCHANGED <<executables, lockfile, rebuild_arg, disk, fs, touches,
                   command_pos, events, stderr, loaded,
                   scan, pre>>

\* lines 576-585: after the last executable coyote.LOCK is overwritten
WriteLock ==
    /\ pc = "main"
    /\ exec_index > Len(executables)
    /\ disk' = Serialize(lockfile)
    /\ pc' = "done"
    /\ UNCHANGED <<executables, lockfile, rebuild_arg, fs, touches,
                   exec_index, command_pos, events, stderr, loaded,
                   scan, pre>>

\* the environment: a file is written (or created) while coyote runs
Touch ==
    /\ Running
    /\ touches < MaxTouches
    /\ \E path \in DOMAIN fs, t \in Times :
        /\ fs[path] # t
        /\ fs' = [fs EXCEPT ![path] = t]
    /\ touches' = touches + 1
    /\ UNCHANGED <<executables, lockfile, rebuild_arg, disk, pc, exec_index,
                   command_pos, events, stderr, loaded,
                   scan, pre>>

Next ==
    \/ LoadLock
    \/ BuildTarget
    \/ CheckRunIf
    \/ SpawnCommand
    \/ CommandExits
    \/ BuildReturns
    \/ WriteLock
    \/ Touch

Spec == Init /\ [][Next]_vars
SpecEval == InitEval /\ [][Next]_vars

\* -------------------------------------------------- a call of patch_string
\* preprocess() (line 337) calls patch_string on a variable's raw value
InitPatch ==
    /\ scan \in {ScanStart(v, t) : v \in Strings, t \in Tables}
    /\ executables = <<>>
    /\ lockfile = CoyoteLockNew
    /\ rebuild_arg = FALSE
    /\ disk = Absent
    /\ fs = [x \in {} |-> NoFile]
    /\ touches = 0
    /\ pc = "preprocess"
    /\ exec_index = 1
    /\ command_pos = 1
    /\ events = <<>>
    /\ stderr = <<>>
    /\ loaded = EmptyMap
    /\ pre = NoPre

\* the character that closes a command reference: the only one whose
\* handling asks the operating system for anything
AtClosingBacktick(st) ==
    /\ st.status = "scanning"
    /\ st.pos <= Len(st.value)
    /\ ~st.var_found
    /\ st.cmd_found
    /\ st.value[st.pos] = Backtick

\* one iteration of the loop of patch_string
PatchStringChar ==
    /\ scan.status = "scanning"
    /\ scan.pos <= Len(scan.value)
    /\ \E outcome \in IF AtClosingBacktick(scan) THEN Outcomes
                      ELSE {CHOOSE o \in Outcomes : ~o.started} :
        scan' = [patch_string_char(scan, scan.value[scan.pos], outcome)
                    EXCEPT !.pos = @ + 1]
    /\ UNCHANGED runVars

\* line 223: Ok(var_data) after the last character
PatchStringReturns ==
    /\ scan.status = "scanning"
    /\ scan.pos > Len(scan.value)
    /\ scan' = [scan EXCEPT !.status = "ok"]
    /\ UNCHANGED runVars

NextPatch ==
    \/ PatchStringChar
    \/ PatchStringReturns

SpecPatch == InitPatch /\ [][NextPatch]_vars

\* ------------------------------------- a call of patch_variable_references
\* one iteration of the loop of patch_variable_references
PatchReferencesChar ==
    /\ scan.status = "scanning"
    /\ scan.pos <= Len(scan.value)
    /\ scan' = [patch_variable_references_char(scan, scan.value[scan.pos])
                    EXCEPT !.pos = @ + 1]
    /\ UNCHANGED runVars

\* line 171, after the last character
PatchReferencesReturns ==
    /\ scan.status = "scanning"
    /\ scan.pos > Len(scan.value)
    /\ scan' = patch_variable_references_end(scan)
    /\ UNCHANGED runVars

NextRefs ==
    \/ PatchReferencesChar
    \/ PatchReferencesReturns

SpecRefs == InitPatch /\ [][NextRefs]_vars

\* ------------------------------------------- main, preprocess() included
\* a run of main() with --rebuild over a recipe that declares variables and
\* whose strings are sequences of characters; with --rebuild the walk does
\* not read the conditions
InitPre ==
    /\ executables \in PreRecipes
    /\ rebuild_arg = TRUE
    /\ disk \in {Absent, Empty}
    /\ fs = [x \in {} |-> NoFile]
    /\ lockfile = CoyoteLockNew
    /\ touches = 0
    /\ pc = "load_lock"
    /\ exec_index = 1
    /\ command_pos = 1
    /\ events = <<>>
    /\ stderr = <<>>
    /\ loaded = EmptyMap
    /\ scan = NoScan
    /\ \E d \in Declarations :
          pre = [pending |-> TRUE, json |-> d, next |-> 1,
                 variables |-> EmptyMap, recipe |-> executables]

Evs(kind, n) == [i \in 1..n |-> Ev(kind)]

\* lines 333-339: the next variable is patched (its commands executed) and
\* entered in the table, or the process ends
ResolveVariable ==
    /\ pc = "preprocess"
    /\ pre.next <= Len(as_object(pre.json))
    /\ \E outcome \in Outcomes :
        LET kv == as_object(pre.json)[pre.next]
            r == resolve_variable(kv[1], kv[2], pre.variables, outcome)
            returned == r.patched.status \in {"ok", "err"}
                        /\ r.checked.kind = "ret"
        IN  /\ events' = events
                   \o Evs("variable_executed", Len(r.patched.executed))
                   \o (IF r.patched.status = "err" THEN <<Ev("undefined")>>
                       ELSE <<>>)
            /\ stderr' = stderr \o r.patched.diag
                   \o (IF r.patched.status = "err" THEN r.checked.err
                       ELSE <<>>)
            /\ pc' = IF returned THEN "preprocess"
                     ELSE IF r.patched.status = "panic" THEN "panicked"
                     ELSE "exited"
            /\ pre' = [pre EXCEPT !.variables = r.variables,
                                  !.next = IF returned THEN @ + 1 ELSE @]
    /\ UNCHANGED <<executables, lockfile, rebuild_arg, disk, fs, touches,
                   exec_index, command_pos, loaded, scan>>

\* what patching the fields 1..n left behind: events and diagnostics
RECURSIVE FieldReports(_, _)
FieldReports(results, n) ==
    IF n = 0 THEN [events |-> <<>>, stderr |-> <<>>]
    ELSE LET before == FieldReports(results, n - 1)
             r == results[n]
             undefined == r.patched.status = "err"
         IN  [events |-> before.events
                  \o Evs("field_executed", Len(r.patched.executed))
                  \o (IF undefined THEN <<Ev("undefined")>> ELSE <<>>),
              stderr |-> before.stderr \o r.patched.diag
                  \o (IF undefined THEN r.checked.err ELSE <<>>)]

\* lines 343-384: the strings of every command are patched in order; the
\* first one that check_var_string does not return for ends the process
PreprocessCommands ==
    /\ pc = "preprocess"
    /\ pre.next > Len(as_object(pre.json))
    /\ LET fields == AllFields(executables)
           results == [i \in DOMAIN fields |->
                          patch_field(fields[i], pre.variables)]
           stops == {i \in DOMAIN fields :
                        \/ results[i].patched.status \in {"exit", "panic"}
                        \/ results[i].checked.kind = "exit"}
           last == IF stops = {} THEN Len(fields)
                   ELSE CHOOSE i \in stops : \A k \in stops : i <= k
           reports == FieldReports(results, last)
       IN  /\ events' = events \o reports.events
           /\ stderr' = stderr \o reports.stderr
           /\ executables' = IF stops = {}
                             THEN preprocess_executables(executables,
                                                         pre.variables)
                             ELSE executables
           /\ pc' = IF stops = {} THEN "main"
                    ELSE IF results[last].patched.status = "panic"
                    THEN "panicked"
                    ELSE "exited"
    /\ UNCHANGED <<lockfile, rebuild_arg, disk, fs, touches, exec_index,
                   command_pos, loaded, scan, pre>>

NextPre ==
    \/ LoadLock
    \/ ResolveVariable
    \/ PreprocessCommands
    \/ BuildTarget
    \/ CheckRunIf
    \/ SpawnCommand
    \/ CommandExits
    \/ BuildReturns
    \/ WriteLock

SpecPre == InitPre /\ [][NextPre]_vars

\* ======================================================== the properties
\* events read as a record of the run
AllCommands ==
    {<<t, c>> : t \in 1..MaxTargets, c \in 1..MaxCommands} \cap
    {x \in Nat \X Nat : x[1] \in 1..Len(executables)
                        /\ x[2] \in 1..Len(executables[x[1]].commands)}
Happened(kind, t, c) ==
    \E i \in 1..Len(events) :
        events[i].ev = kind /\ events[i].t = t /\ events[i].c = c
Occurred(kind) == \E i \in 1..Len(events) : events[i].ev = kind
Later(t1, c1, t2, c2) == t2 > t1 \/ (t2 = t1 /\ c2 > c1)
LastEvent == events[Len(events)]
CondAt(e) == Unwrap(executables[e.t].commands[e.c].run_if)
IsEvaluation(e) == e.ev \in {"met", "not_met", "eval_failed"}

\* C1: a target command that exits non-zero is reported and the run goes
\* on: once the run is over, and nothing fatal (a spawn failure, a failed
\* evaluation) happened in it, every command after the failed one, in the
\* same and in every later executable, was considered.
C1_FailedCommandDoesNotStopTheRun ==
    (Terminated /\ ~Occurred("spawn_failed") /\ ~Occurred("eval_failed")) =>
        \A i \in 1..Len(events) : events[i].ev = "failed" =>
            /\ \E k \in 1..Len(stderr) :
                  stderr[k].message = "Failed to execute command"
            /\ \A x \in AllCommands :
                  Later(events[i].t, events[i].c, x[1], x[2])
                      => Happened("consider", x[1], x[2])

\* C2: a run that got past loading the lock, with no spawn failure (and no
\* failed evaluation), ends with coyote.LOCK overwritten by the lock in
\* memory, also when target commands exited non-zero.
C2_LockWrittenAtRunEnd ==
    (Terminated /\ events # <<>> /\ ~Occurred("spawn_failed")
                /\ ~Occurred("eval_failed")) =>
        pc = "done" /\ disk = Json(lockfile.last_modified)

\* C3: a spawn failure ends the run at once: it is the last thing the run
\* did, the process has exited, and nothing was written to coyote.LOCK.
C3_SpawnFailureAbortsRun ==
    \A i \in 1..Len(events) : events[i].ev = "spawn_failed" =>
        /\ i = Len(events)
        /\ pc = "exited"
        /\ stderr # <<>> /\ stderr[Len(stderr)].fatal
        /\ \A x \in AllCommands :
              Later(events[i].t, events[i].c, x[1], x[2])
                  => ~Happened("run", x[1], x[2])
\* a spawn failure at the first command of a recipe that has a later command
\* in the same executable and a later executable with a command
C3_Witness ==
    /\ Len(executables) = 2
    /\ Len(executables[1].commands) = 2
    /\ Len(executables[2].commands) = 1
    /\ Happened("spawn_failed", 1, 1)

\* C4: without --rebuild, a command whose condition is not met is never
\* handed to cmd.output(), and the walk goes on with the command after it
\* (or, after the last command, with the next executable).
C4_SkippedCommandNotRunAndWalkContinues ==
    \A i \in 1..Len(events) : events[i].ev = "not_met" =>
        LET t == events[i].t
            c == events[i].c
        IN  /\ ~lockfile.rebuild
            /\ ~Happened("run", t, c)
            /\ i = Len(events) =>
                  /\ pc \in {"build", "main", "done"}
                  /\ exec_index >= t
                  /\ exec_index = t => pc = "build" /\ command_pos = c + 1
            /\ i < Len(events) =>
                  /\ events[i + 1].ev = "consider"
                  /\ Later(t, c, events[i + 1].t, events[i + 1].c)
                  /\ c < Len(executables[t].commands) =>
                        events[i + 1].t = t /\ events[i + 1].c = c + 1
\* a skipped command followed by a command of the same executable that ran
C4_Witness ==
    /\ ~lockfile.rebuild
    /\ Happened("not_met", 1, 1)
    /\ Happened("run", 1, 2)

\* C8: with --rebuild no condition is evaluated, every command the walk
\* reaches is handed to cmd.output(), the lock in memory stays as it was
\* loaded, and what is written to coyote.LOCK at the end is what was loaded.
C8_RebuildLeavesLockAlone ==
    (rebuild_arg /\ pc # "load_lock") =>
        /\ \A i \in 1..Len(events) : ~IsEvaluation(events[i])
        /\ \A i \in 1..Len(events) : events[i].ev = "consider" =>
              \/ Happened("run", events[i].t, events[i].c)
              \/ i = Len(events) /\ pc = "spawn"
        /\ lockfile.last_modified = loaded
        /\ pc = "done" => disk = Json(loaded)
\* a finished --rebuild run that ran a gated command whose file is newer
\* than the lock says
C8_Witness ==
    /\ rebuild_arg
    /\ pc = "done"
    /\ <<1, 1>> \in AllCommands
    /\ IsSome(executables[1].commands[1].run_if)
    /\ Happened("run", 1, 1)
    /\ "p" \in DOMAIN loaded
    /\ MetadataOk(fs, "p")
    /\ loaded["p"] # to_string(fs["p"])

\* ---------------------------------------------- condition_met, in a run
IsModifiedOf(cond) == Len(cond) = 2 /\ cond[1] = "modified"
Stored(path) == lockfile.last_modified[path]
JustEvaluated == events # <<>> /\ IsEvaluation(LastEvent)

\* C5: evaluating ["modified", path] for a path the lock has no entry for,
\* the file's metadata being readable, is met, and right after it the lock
\* maps the path to the file's modification time.
C5_FirstObservationIsMetAndRecorded ==
    /\ \A i \in 1..Len(events) :
          (IsEvaluation(events[i]) /\ IsModifiedOf(CondAt(events[i]))
             /\ events[i].prev = None /\ events[i].now # None)
          => events[i].ev = "met"
    /\ (JustEvaluated /\ IsModifiedOf(CondAt(LastEvent))
          /\ LastEvent.prev = None /\ LastEvent.now # None)
       => LET path == CondAt(LastEvent)[2] IN
          /\ path \in DOMAIN lockfile.last_modified
          /\ Stored(path) = to_string(Unwrap(LastEvent.now))
          /\ parse_u64(Stored(path)) = Unwrap(LastEvent.now)
\* a first observation of "p", modified at second 1
C5_Witness ==
    /\ JustEvaluated
    /\ CondAt(LastEvent) = <<"modified", "p">>
    /\ LastEvent.prev = None
    /\ LastEvent.now = Some(1)
    /\ LastEvent.ev = "met"
    /\ pc = "spawn"

\* C6 as stated: evaluating ["modified", path] for a path the lock has an
\* entry for (the file's metadata being readable) always returns, met
\* exactly when the stored value differs from the file's modification time,
\* and leaves the file's modification time in the lock.
C6_PresentPathAlwaysRefreshed ==
    (JustEvaluated /\ IsModifiedOf(CondAt(LastEvent))
        /\ LastEvent.prev # None /\ LastEvent.now # None)
    => LET path == CondAt(LastEvent)[2]
           now == Unwrap(LastEvent.now)
       IN  /\ LastEvent.ev \in {"met", "not_met"}
           /\ LastEvent.ev = "met" <=> parse_u64(Unwrap(LastEvent.prev)) # now
           /\ Stored(path) = to_string(now)

\* C6 as amended: the same, for a stored value that parses as a u64; for
\* one that does not, the process exits with a fatal diagnostic and the
\* entry is left as it was.
C6_ParsableEntryIsRefreshed ==
    (JustEvaluated /\ IsModifiedOf(CondAt(LastEvent))
        /\ LastEvent.prev # None /\ LastEvent.now # None)
    => LET path == CondAt(LastEvent)[2]
           now == Unwrap(LastEvent.now)
           prev == Unwrap(LastEvent.prev)
       IN  IF parse_u64(prev) # ParseErr
           THEN /\ LastEvent.ev \in {"met", "not_met"}
                /\ LastEvent.ev = "met" <=> parse_u64(prev) # now
                /\ Stored(path) = to_string(now)
           ELSE /\ LastEvent.ev = "eval_failed"
                /\ pc = "exited"
                /\ stderr[Len(stderr)].fatal
                /\ Stored(path) = prev
\* an entry newer than the file: met, and the older time is stored
C6_Witness ==
    /\ JustEvaluated
    /\ CondAt(LastEvent) = <<"modified", "p">>
    /\ LastEvent.prev = Some(to_string(1))
    /\ LastEvent.now = Some(0)
    /\ LastEvent.ev = "met"
    /\ Stored("p") = to_string(0)

\* C7: two evaluations of ["modified", path] in succession, the first
\* finding no entry for the path and both finding the same modification
\* time, are met and then not met, and the lock then holds that time.
C7_SecondEvaluationOfUnchangedFileNotMet ==
    \A i, j \in 1..Len(events) :
        (/\ i < j
         /\ IsEvaluation(events[i]) /\ IsEvaluation(events[j])
         /\ IsModifiedOf(CondAt(events[i]))
         /\ CondAt(events[j]) = CondAt(events[i])
         /\ \A k \in (i + 1)..(j - 1) :
               IsEvaluation(events[k]) => CondAt(events[k]) # CondAt(events[i])
         /\ events[i].prev = None
         /\ events[i].now # None
         /\ events[j].now = events[i].now)
        => /\ events[i].ev = "met"
           /\ events[j].ev = "not_met"
           /\ events[j].prev = Some(to_string(Unwrap(events[i].now)))
           /\ j = Len(events) =>
                 Stored(CondAt(events[i])[2]) = to_string(Unwrap(events[i].now))
\* two commands gated on "p", which the lock did not know and nobody touched
C7_Witness ==
    /\ Len(events) = 6
    /\ events[2].ev = "met" /\ events[2].prev = None
    /\ CondAt(events[2]) = <<"modified", "p">>
    /\ events[6].ev = "not_met"
    /\ CondAt(events[6]) = <<"modified", "p">>
    /\ events[6].now = events[2].now
    /\ touches = 0

\* C9: an empty condition, and "modified" with no argument or with more
\* than one, end the process with a fatal "run_if" diagnostic, the lock
\* untouched and the command not run.
C9_MalformedConditionIsReported ==
    (JustEvaluated
       /\ \/ CondAt(LastEvent) = <<>>
          \/ CondAt(LastEvent)[1] = "modified" /\ Len(CondAt(LastEvent)) # 2)
    => /\ LastEvent.ev = "eval_failed"
       /\ pc = "exited"
       /\ stderr # <<>>
       /\ stderr[Len(stderr)].fatal
       /\ stderr[Len(stderr)].subname = "run_if"
       /\ ~Happened("run", LastEvent.t, LastEvent.c)

\* ------------------------------------------------ patch_string, in a call
BacktickPositions(v) == {i \in 1..Len(v) : v[i] = Backtick}
HasBrace(v) == \E i \in 1..Len(v) : v[i] = "{"
First(S) == CHOOSE i \in S : \A k \in S : i <= k
Last(S) == CHOOSE i \in S : \A k \in S : k <= i

\* C10: a closing backtick ends the command reference.  For a value without
\* "{" that patch_string returns Ok for: there is one execution per pair of
\* backticks; and with exactly two backticks the one command executed is
\* the trimmed text between them, and the output starts with the text
\* before the reference and ends with the text after it, copied verbatim.
C10_ClosingBacktickEndsTheReference ==
    (scan.status = "ok" /\ ~HasBrace(scan.value)) =>
        LET v == scan.value
            ticks == BacktickPositions(v)
            out == scan.var_data
        IN  /\ Len(scan.executed) = Cardinality(ticks) \div 2
            /\ Cardinality(ticks) = 2 =>
                LET i == First(ticks)
                    j == Last(ticks)
                    after == Len(v) - j
                IN  /\ scan.executed =
                          <<Words(Trim(SubSeq(v, i + 1, j - 1)), <<>>)>>
                    /\ Len(out) >= (i - 1) + after
                    /\ SubSeq(out, 1, i - 1) = SubSeq(v, 1, i - 1)
                    /\ SubSeq(out, Len(out) - after + 1, Len(out))
                          = SubSeq(v, j + 1, Len(v))

\* ------------------------------------------------ preprocess(), in a run
Ref(n) == <<"{">> \o n \o <<"}">>
StartsWith(s, prefix) ==
    Len(s) >= Len(prefix) /\ SubSeq(s, 1, Len(prefix)) = prefix
EarlierKeys(i) == {pre.json[k][1] : k \in 1..(i - 1)}
\* the process ended in lines 525-551, before preprocess()
LockFailed ==
    pc = "exited" /\ stderr # <<>> /\ stderr[Len(stderr)].subname = ""

C12_FieldsNeverExecute ==
    LET raw == AllFields(pre.recipe)
        now == AllFields(executables)
    IN  /\ ~Occurred("field_executed")
        /\ pre.pending =>
              /\ Len(now) = Len(raw)
              /\ \A i \in DOMAIN raw : ~HasBrace(raw[i]) => now[i] = raw[i]

\* the run went through: the program {a} was replaced by a's value (which
\* a command printed), the argument of backticks was left alone
C12_Witness ==
    /\ pc = "done"
    /\ Len(pre.recipe) = 1
    /\ pre.recipe[1].commands[1].command = Ref(<<"a">>)
    /\ pre.json = << <<(<<"a">>), <<Backtick, "o", Backtick>> >> >>
    /\ Occurred("variable_executed")
    /\ executables[1].commands[1].command = <<"o">>
    /\ executables[1].commands[1].arguments = << <<Backtick, "o", Backtick>> >>
    /\ Happened("run", 1, 1)

\* C13: an undefined variable, met while the variables are resolved or
\* while the strings of any command are patched, ends the process there:
\* it is the last thing the run did, no command of any executable was
\* considered or handed to cmd.output(), and coyote.LOCK was not
\* overwritten (it is absent or empty, as it was after line 551).
C13_UndefinedVariableAbortsBeforeAnyCommand ==
    Occurred("undefined") =>
        /\ pc = "exited"
        /\ LastEvent.ev = "undefined"
        /\ ~Occurred("consider")
        /\ ~Occurred("run")
        /\ disk.kind # "json"
        /\ executables = pre.recipe

\* two executables, the first plain, the last with the argument {b}; b is
\* not declared and the run ended in preprocess()
C13_Witness ==
    /\ Len(pre.recipe) = 2
    /\ Fields(pre.recipe[1].commands[1]) = << <<"c">> >>
    /\ pre.recipe[2].commands[1].arguments = <<Ref(<<"b">>)>>
    /\ pre.next > Len(pre.json)
    /\ <<"b">> \notin DOMAIN pre.variables
    /\ pc = "exited"
    /\ Occurred("undefined")

\* ---------------------------- patch_variable_references, in a call
\* the scanner is about to read the character c
Reads(c) ==
    /\ scan.status = "scanning"
    /\ scan.pos <= Len(scan.value)
    /\ scan.value[scan.pos] = c
\* the text between the last "{" before position pos and pos
Captured(v, pos) ==
    LET open == Last({q \in 1..(pos - 1) : v[q] = "{"})
    IN  SubSeq(v, open + 1, pos - 1)

\* C14: "}" read inside a variable reference looks the captured name up
\* (the text since the "{" that opened the reference).  A name that is not
\* in the table makes the call return Err with exactly that name, and
\* nothing more is scanned; the value of a name that is in the table is
\* appended to the output and the scan goes on outside the reference.  So
\* "{a}" with the empty table fails naming a.
C14_ClosingBraceLooksTheNameUp ==
    /\ [][ (Reads("}") /\ scan.var_found) =>
              LET name == Captured(scan.value, scan.pos)
              IN  IF name \in DOMAIN scan.variables
                  THEN /\ scan'.status = "scanning"
                       /\ scan'.var_data = scan.var_data \o scan.variables[name]
                       /\ ~scan'.var_found
                       /\ scan'.pos = scan.pos + 1
                  ELSE /\ scan'.status = "err"
                       /\ scan'.err = name ]_vars
    /\ [][ scan.status = "err" => scan' = scan ]_vars
    /\ []( ( /\ scan.value = <<"{", "a", "}">>
             /\ scan.variables = EmptyMap
             /\ scan.status # "scanning" ) =>
               (scan.status = "err" /\ scan.err = <<"a">>) )

\* "{a}" with the empty table has failed naming a
C14_Witness ==
    /\ scan.value = <<"{", "a", "}">>
    /\ scan.variables = EmptyMap
    /\ scan.status = "err"
    /\ scan.err = <<"a">>

\* C15: a second "{" inside a variable reference is an escape.  Reading it
\* emits exactly one "{" and leaves the reference; the capture it cuts
\* short is dropped, since the next reference starts its capture afresh;
\* and an input made of "{", a capture without braces, the second "{" and
\* a rest without "{" returns Ok with "{" followed by the rest, its "}"
\* included, whatever the table holds: "{{a}" gives "{a}".
C15_SecondBraceIsAnEscape ==
    /\ [][ (Reads("{") /\ scan.var_found) =>
              /\ scan'.status = "scanning"
              /\ scan'.var_data = Append(scan.var_data, "{")
              /\ ~scan'.var_found ]_vars
    /\ [][ (Reads("{") /\ ~scan.var_found) =>
              /\ scan'.var_found
              /\ scan'.tokens = <<"{">>
              /\ scan'.var_data = scan.var_data ]_vars
    /\ [](LET v == scan.value
          IN  \A k \in 2..Len(v) :
                ( /\ scan.status # "scanning"
                  /\ v[1] = "{"
                  /\ v[k] = "{"
                  /\ \A i \in 2..(k - 1) : v[i] \notin {"{", "}"}
                  /\ \A i \in (k + 1)..Len(v) : v[i] # "{" ) =>
                    /\ scan.status = "ok"
                    /\ scan.var_data = <<"{">> \o SubSeq(v, k + 1, Len(v)))

\* "{{a}" has returned "{a}" although the table has a value for a
C15_Witness ==
    /\ scan.value = <<"{", "{", "a", "}">>
    /\ <<"a">> \in DOMAIN scan.variables
    /\ scan.status = "ok"
    /\ scan.var_data = <<"{", "a", "}">>

\* C16: an input without "{" comes back unchanged.  patch_variable_references
\* never returns Err for it, and what it returns is the input itself, "}"
\* and backticks included, whatever the table holds.
C16_NoBraceNoChange ==
    ~HasBrace(scan.value) =>
        /\ scan.status # "err"
        /\ scan.var_data = SubSeq(scan.value, 1, scan.pos - 1)
        /\ scan.status = "ok" => scan.var_data = scan.value

\* a string of "}" and backticks has come back as it was
C16_Witness ==
    /\ scan.value = <<"}", Backtick, "a", Backtick, "}">>
    /\ <<"a">> \in DOMAIN scan.variables
    /\ scan.status = "ok"
    /\ scan.var_data = scan.value

\* ------------------------------------------------- the order of the walk
Before(e1, e2) == e1.t < e2.t \/ (e1.t = e2.t /\ e1.c <= e2.c)
Completion(e) == e.ev \in {"succeeded", "failed", "spawn_failed"}
InFlight ==
    {i \in 1..Len(events) :
        /\ events[i].ev = "run"
        /\ ~\E j \in (i + 1)..Len(events) :
              Completion(events[j]) /\ events[j].t = events[i].t
                                    /\ events[j].c = events[i].c}

\* C17: the walk is sequential.  What the run did, it did in the order of
\* the executables and, within one, of its commands (each event is at or
\* after the command of the event before it); when a command's
\* process has been started, the next thing that happens is its own
\* completion, before any other command is considered, evaluated or
\* started; so no more than one process is in flight, and one is exactly
\* while main is inside cmd.output(); and last_modified changes only in the
\* evaluation of a condition, when no process is in flight.
C17_OneCommandAtATime ==
    /\ [](/\ \A i \in 1..(Len(events) - 1) :
                /\ Before(events[i], events[i + 1])
                /\ events[i].ev = "run" =>
                      /\ Completion(events[i + 1])
                      /\ events[i + 1].t = events[i].t
                      /\ events[i + 1].c = events[i].c
          /\ LET flying == InFlight
             IN  /\ Cardinality(flying) <= 1
                 /\ (flying # {}) <=> (pc = "wait"))
    /\ [][ lockfile'.last_modified # lockfile.last_modified =>
              /\ pc \in {"load_lock", "build"}
              /\ InFlight = {}
              /\ InFlight' = {} ]_vars

\* two executables were walked: the only command of the first ran to its
\* end before the condition of the second's was evaluated and it ran
C17_Witness ==
    /\ pc = "done"
    /\ Len(executables) = 2
    /\ Len(events) >= 6
    /\ events[2].ev = "run" /\ events[2].t = 1
    /\ events[3].ev = "succeeded" /\ events[3].t = 1
    /\ events[5].ev = "met" /\ events[5].t = 2
    /\ Happened("succeeded", 2, 1)
    /\ lockfile.last_modified # loaded

\* ------------------------------------------------ the two scanners
HasBacktick(v) == \E i \in 1..Len(v) : v[i] = Backtick

\* C18: without backticks the two scanners agree.  When patch_string has
\* returned for a value that holds no backtick, it returned what
\* patch_variable_references returns for the same value and table: Ok with
\* the same string, or Err with the same name; and it executed nothing.
C18_ScannersAgreeWithoutBackticks ==
    (scan.status # "scanning" /\ ~HasBacktick(scan.value)) =>
        LET r == patch_variable_references(scan.value, scan.variables)
        IN  /\ scan.status \in {"ok", "err"}
            /\ scan.status = r.status
            /\ scan.status = "ok" => scan.var_data = r.var_data
            /\ scan.status = "err" => scan.err = r.err
            /\ scan.executed = <<>>

\* patch_string has returned "ab}" for "a{a}}", as the other scanner does
C18_Witness ==
    /\ scan.value = <<"a", "{", "a", "}", "}">>
    /\ <<"a">> \in DOMAIN scan.variables
    /\ scan.status = "ok"
    /\ scan.var_data = <<"a", "b", "}">>
    /\ patch_variable_references(scan.value, scan.variables).var_data
          = <<"a", "b", "}">>

\* ------------------------------------- two commands gated on one file
\* C19: in a run without --rebuild, of two evaluations of ["modified", p]
\* for the same p, in the same executable or in two, that find the same
\* modification time (as does every evaluation of it between them), the
\* later is not met and its command is not run: the lock holds the time the
\* earlier one wrote, whatever it held when it was loaded.  The later
\* evaluation is taken when it is the last thing the run did, which every
\* evaluation once is; a command whose condition was not met is never run.
C19_LaterCommandOnUnchangedFileIsSkipped ==
    /\ (events # <<>> /\ IsEvaluation(LastEvent)) =>
          LET j == Len(events)
              cond == CondAt(LastEvent)
              same == {k \in 1..j : IsEvaluation(events[k])
                                    /\ CondAt(events[k]) = cond}
          IN  \A i \in same \ {j} :
                (/\ IsModifiedOf(cond)
                 /\ events[i].now # None
                 /\ \A k \in same : k > i => events[k].now = events[i].now)
                => /\ ~lockfile.rebuild
                   /\ LastEvent.ev = "not_met"
                   /\ LastEvent.prev = Some(to_string(Unwrap(events[i].now)))
                   /\ ~Happened("run", LastEvent.t, LastEvent.c)
    /\ \A m \in 1..Len(events) :
          events[m].ev = "run" =>
              ~Happened("not_met", events[m].t, events[m].c)

\* the lock came with 1 for "p", whose time is 0: the command of the first
\* executable ran, the one of the second, gated on "p" too, was skipped
C19_Witness ==
    /\ pc = "done"
    /\ Len(executables) = 2
    /\ loaded = [x \in {"p"} |-> to_string(1)]
    /\ \E i, j \in 1..Len(events) :
          /\ i < j
          /\ events[i].t = 1 /\ events[i].ev = "met"
          /\ events[i].now = Some(0)
          /\ events[j].t = 2 /\ events[j].ev = "not_met"
          /\ events[j].now = Some(0)
    /\ Happened("run", 1, 1)
    /\ ~Happened("run", 2, 1)

\* ------------------------------------------ a reference left open
\* C20: a variable reference that the end of the input leaves open is not
\* an error.  Err is only ever returned on reading a "}"; and when the
\* call returns inside a reference, it returns Ok with what the text before
\* the opening "{" produced: the "{" and what was captured after it are
\* dropped, and the table is not asked about them.
C20_OpenReferenceIsDropped ==
    LET v == scan.value
    IN  /\ scan.status = "err" => (scan.pos >= 2 /\ v[scan.pos - 1] = "}")
        /\ (scan.status = "ok" /\ scan.var_found) =>
              LET open == Last({q \in 1..Len(v) : v[q] = "{"})
                  before == patch_variable_references(SubSeq(v, 1, open - 1),
                                                      scan.variables)
              IN  /\ \A q \in (open + 1)..Len(v) : v[q] # "}"
                  /\ before.status = "ok"
                  /\ ~before.var_found
                  /\ scan.var_data = before.var_data

\* "a{a" has returned "a" although the table has a value for a
C20_Witness ==
    /\ scan.value = <<"a", "{", "a">>
    /\ <<"a">> \in DOMAIN scan.variables
    /\ scan.status = "ok"
    /\ scan.var_found
    /\ scan.var_data = <<"a">>

====
